---- MODULE Spec2Model ----
(***************************************************************************)
(* Conversation-history slice of the backend: the HTTP controller, the     *)
(* history service, the ConversationHistory repository and the document    *)
(* store behind it.  Every handler is an async function; the code between  *)
(* two awaits runs atomically, and every awaited store call takes effect   *)
(* atomically at some point between its call and its return.  The agent    *)
(* and health endpoints and the start-up of the server process with its    *)
(* store handle are modelled beside it, each with its own specification.   *)
(***************************************************************************)
EXTENDS Integers, Sequences, FiniteSets, TLC

\* ---------------------------------------------------------------- bounds
MaxIds == 2        \* documents ever added to the collection
MaxClock == 2      \* milliseconds the wall clock may advance
MaxReqs == 2       \* requests in flight at the same time
MaxOps == 3        \* requests started in one behaviour
MaxBatch == 2      \* messages in one request body
MaxSerialOps == 4  \* requests started in one behaviour of a client that
                   \* awaits each response before its next request
MaxPage == 3       \* pages asked of the repository when its paging is checked
MaxLimit == 3      \* page sizes asked of the repository when its paging is checked
MaxBootCalls == 4  \* calls of initializeFirebase and getDb in one behaviour

\* ------------------------------------------------------ program constants
DefaultPage == 1
DefaultLimit == 20
Radix == 10
NoTimestamp == 0   \* a message without timestamp (m.timestamp is falsy)
ExitFailure == 1   \* process.exit(1)

VARIABLES
  store,      \* the 'conversations' collection: document id -> stored document
  idCounter,  \* the store's id generator
  clock,      \* the wall clock, in milliseconds (new Date())
  pc,         \* per request slot: the await the handler is suspended at
  req,        \* per request slot: the HTTP request being served
  loc,        \* per request slot: the handler's local variables
  out,        \* the request answered by the last step, with its response
  nOps,       \* requests started so far
  serial,     \* the client awaits each response before its next request
  initLen,    \* history: messages each document was created with
  acked,      \* history: messages of appends that were answered 200, per document
  others,     \* history: messages other calls appended to the same document
              \*          since this request started
  before,     \* history: what the targeted document held when the request started
  lastAppended, \* history: per owner, the conversation an append was last applied to
  handler,    \* agent and health endpoints: the await the handler is suspended at
  hreq,       \* agent and health endpoints: the request being served
  hloc,       \* agent and health endpoints: the handler's local variables
  calls,      \* the calls made to the agent server and the store for that request
  reply,      \* agent and health endpoints: the last request answered, with its response
  env,        \* process.env.FIREBASE_SERVICE_ACCOUNT
  apps,       \* firebase-admin: getApps().length
  created,    \* firebase-admin: Firestore instances created so far
  cached,     \* firebase-admin: the Firestore instance of the default app
  db,         \* config/firebase: let db
  proc,       \* the server process: loaded, listening or exited
  exitCode,   \* the exit code of the process once it has exited
  result,     \* the last call of initializeFirebase or getDb, with its outcome
  nCalls,     \* calls of initializeFirebase and getDb so far
  firstDb     \* history: the handle the first successful initializeFirebase returned

storeVars == <<store, idCounter>>
reqVars == <<pc, req, loc, nOps>>
histVars == <<initLen, acked, others, before, lastAppended>>
proxyVars == <<handler, hreq, hloc, calls, reply>>
bootVars == <<env, apps, created, cached, db, proc, exitCode, result, nCalls,
              firstDb>>
\* what a step of the history endpoints leaves as it is
restVars == <<serial, proxyVars, bootVars>>
vars == <<store, idCounter, clock, pc, req, loc, out, nOps, serial,
          initLen, acked, others, before, lastAppended,
          handler, hreq, hloc, calls, reply,
          env, apps, created, cached, db, proc, exitCode, result, nCalls,
          firstDb>>

Reqs == 1..MaxReqs
IdPool == 1..MaxIds

\* ------------------------------------------------------------ JS values
Undefined == "<undefined>"
Null == [isNull |-> TRUE]
Users == {"user-1", "user-2"}

\* !v for the string-or-undefined values of a request body or query
Falsy(v) == v = Undefined \/ v = ""

Min(a, b) == IF a < b THEN a ELSE b
Max(a, b) == IF a > b THEN a ELSE b

\* ------------------------------------------------------------ ApiError
ApiError(code, msg) == [statusCode |-> code, message |-> msg]
\* new Error(msg): carries no statusCode
PlainError(msg) == [message |-> msg]

ErrorHandlerAlways500(err) ==
  [status |-> 500, body |-> [error |-> [message |-> err.message]]]

\* middleware/errorHandler: statusCode = err.statusCode || 500
ErrorHandler(err) ==
  [status |-> IF "statusCode" \in DOMAIN err /\ err.statusCode # 0
                THEN err.statusCode ELSE 500,
   body |-> [error |-> [message |-> err.message]]]

Json(code, body) == [status |-> code, body |-> body]

\* ------------------------------------------------------- the mock store
\* JSON.parse(JSON.stringify(data)): keys whose value is undefined are dropped
StringFields == {"sessionId", "userId"}
JsonClone(data) ==
  LET keep == {k \in DOMAIN data : ~(k \in StringFields /\ data[k] = Undefined)}
  IN  [k \in keep |-> data[k]]

\* d.data[field] of a stored document
Field(data, k) == IF k \in DOMAIN data THEN data[k] ELSE Undefined

\* MockDocRef.get / MockDocSnapshot: exists, id, data()
DocGetNeverExists(st, id) == [exists |-> FALSE, id |-> id]

DocGet(st, id) ==
  IF id \in DOMAIN st
    THEN [exists |-> TRUE, id |-> id, data |-> JsonClone(st[id])]
    ELSE [exists |-> FALSE, id |-> id]

\* { id: doc.id, ...doc.data() }; spreading undefined adds nothing
WithId(snap) ==
  IF snap.exists THEN ("id" :> snap.id) @@ snap.data ELSE [id |-> snap.id]

NewIdLowestFree(st, counter) == Cardinality(DOMAIN st) + 1

\* MockCollectionRef.add: idCounter++; id = `mock-id-${idCounter}`
NewId(st, counter) == counter + 1

\* MockCollectionRef.add: the document stored under the next id
MockAdd(st, id, data) == (id :> JsonClone(data)) @@ st

MockUpdateOverwrite(st, id, elements, now) ==
  [st EXCEPT ![id] = [k \in DOMAIN st[id] \cup {"messages", "updatedAt"} |->
      CASE k = "messages" -> elements
        [] k = "updatedAt" -> now
        [] OTHER -> st[id][k]]]

MockUpdatePrepend(st, id, elements, now) ==
  [st EXCEPT ![id] = [k \in DOMAIN st[id] \cup {"messages", "updatedAt"} |->
      CASE k = "messages" ->
             elements
               \o (IF "messages" \in DOMAIN st[id] THEN st[id].messages ELSE <<>>)
        [] k = "updatedAt" -> now
        [] OTHER -> st[id][k]]]

MockUpdateKeepStamp(st, id, elements, now) ==
  [st EXCEPT ![id] = [k \in DOMAIN st[id] \cup {"messages"} |->
      CASE k = "messages" ->
             (IF "messages" \in DOMAIN st[id] THEN st[id].messages ELSE <<>>)
               \o elements
        [] OTHER -> st[id][k]]]

MockUpdateReplace(st, id, elements, now) ==
  [st EXCEPT ![id] = [messages |-> elements, updatedAt |-> now]]

\* MockDocRef.update with { messages: arrayUnion(...elements), updatedAt: now }
\* on a document that exists: the elements are appended, nothing is dropped
MockUpdate(st, id, elements, now) ==
  [st EXCEPT ![id] = [k \in DOMAIN st[id] \cup {"messages", "updatedAt"} |->
      CASE k = "messages" ->
             (IF "messages" \in DOMAIN st[id] THEN st[id].messages ELSE <<>>)
               \o elements
        [] k = "updatedAt" -> now
        [] OTHER -> st[id][k]]]

MockDeleteKeep(st, id) == st

\* MockDocRef.delete: no error when the document is missing
MockDelete(st, id) == [k \in DOMAIN st \ {id} |-> st[k]]

\* ------------------------------------------------------------ MockQuery
RECURSIVE AscSeq(_)
\* the elements of a set of ids, ascending
AscSeq(S) ==
  IF S = {} THEN <<>>
  ELSE LET m == CHOOSE x \in S : \A y \in S : x <= y
       IN  <<m>> \o AscSeq(S \ {m})

FilteredIdsNoFilter(st, userId) == AscSeq(DOMAIN st)

\* MockQuery._getFilteredDocs with the filter userId == value, in
\* Object.entries order.  The keys are 'mock-id-N', inserted with N rising
\* and never inserted twice, so the order is that of N.
FilteredIds(st, userId) ==
  AscSeq({id \in DOMAIN st : Field(st[id], "userId") = userId})

RemoveAt(s, i) == SubSeq(s, 1, i - 1) \o SubSeq(s, i + 1, Len(s))

RECURSIVE SortAscBy(_, _)
SortAscBy(st, ids) ==
  IF ids = <<>> THEN <<>>
  ELSE LET least == CHOOSE i \in 1..Len(ids) :
                     /\ \A j \in 1..Len(ids) :
                          st[ids[i]].updatedAt <= st[ids[j]].updatedAt
                     /\ \A j \in 1..(i - 1) :
                          st[ids[j]].updatedAt # st[ids[i]].updatedAt
       IN  <<ids[least]>> \o SortAscBy(st, RemoveAt(ids, least))

RECURSIVE SortDescBy(_, _)
\* docs.sort(...) by updatedAt, 'desc': Array.prototype.sort is stable, so
\* documents with equal updatedAt keep their Object.entries order
SortDescBy(st, ids) ==
  IF ids = <<>> THEN <<>>
  ELSE LET best == CHOOSE i \in 1..Len(ids) :
                     /\ \A j \in 1..Len(ids) :
                          st[ids[i]].updatedAt >= st[ids[j]].updatedAt
                     /\ \A j \in 1..(i - 1) :
                          st[ids[j]].updatedAt # st[ids[i]].updatedAt
       IN  <<ids[best]>> \o SortDescBy(st, RemoveAt(ids, best))

\* Array.prototype.slice(start, end): a negative index counts from the end
Slice(s, start, end) ==
  LET n == Len(s)
      from == IF start < 0 THEN Max(n + start, 0) ELSE Min(start, n)
      to == IF end < 0 THEN Max(n + end, 0) ELSE Min(end, n)
  IN  SubSeq(s, from + 1, to)

\* MockQuery.get of where(userId).orderBy(updatedAt, desc).offset(o).limit(l),
\* mapped to { id, ...data } by findByUserId
PageQuery(st, userId, offset, limit) ==
  LET ids == Slice(SortDescBy(st, FilteredIds(st, userId)), offset, offset + limit)
  IN  [i \in 1..Len(ids) |-> WithId(DocGet(st, ids[i]))]

\* MockQuery.count().get() of where(userId): docs.length
CountQuery(st, userId) == Len(FilteredIds(st, userId))

\* ConversationHistory.countDocuments({}): every document
CountDocuments(st) == Len(AscSeq(DOMAIN st))

\* ConversationHistory.findById: null when the document does not exist
FindByIdUnchecked(st, id) == WithId(DocGet(st, id))

FindById(st, id) ==
  LET doc == DocGet(st, id) IN IF ~doc.exists THEN Null ELSE WithId(doc)

OffsetFromPage(page, limit) == page * limit

\* findByUserId: offset = (page - 1) * limit
Offset(page, limit) == (page - 1) * limit

CeilFloor(total, limit) ==
  IF limit > 0 THEN total \div limit ELSE 0 - (total \div (0 - limit))

\* Math.ceil(total / limit), limit # 0
Ceil(total, limit) ==
  IF limit > 0
    THEN (IF total % limit = 0 THEN total \div limit ELSE (total \div limit) + 1)
    ELSE 0 - (total \div (0 - limit))

\* ------------------------------------------------------------ parseInt
DigitVal == "0" :> 0 @@ "1" :> 1 @@ "2" :> 2 @@ "3" :> 3 @@ "4" :> 4 @@
            "5" :> 5 @@ "6" :> 6 @@ "7" :> 7 @@ "8" :> 8 @@ "9" :> 9

NaN == [nan |-> TRUE]
Num(n) == [nan |-> FALSE, val |-> n]

RECURSIVE DigitRun(_, _)
\* the value of the longest run of digits that starts the text, on top of acc
DigitRun(chars, acc) ==
  IF chars = <<>> \/ Head(chars) \notin DOMAIN DigitVal THEN acc
  ELSE DigitRun(Tail(chars), acc * Radix + DigitVal[Head(chars)])

\* parseInt(q, 10) of a query parameter: undefined and text that does not
\* start with an optionally signed digit give NaN; text after the digits is
\* ignored
ParseInt(q) ==
  IF ~q.present THEN NaN
  ELSE LET neg == q.chars # <<>> /\ Head(q.chars) = "-"
           rest == IF q.chars # <<>> /\ Head(q.chars) \in {"-", "+"}
                     THEN Tail(q.chars) ELSE q.chars
       IN  IF rest = <<>> \/ Head(rest) \notin DOMAIN DigitVal THEN NaN
           ELSE Num(IF neg THEN 0 - DigitRun(rest, 0) ELSE DigitRun(rest, 0))

OrDefaultPage(p, d) == IF p.nan \/ p.val = 0 THEN DefaultPage ELSE p.val

\* parseInt(...) || d: NaN and 0 are falsy
OrDefault(p, d) == IF p.nan \/ p.val = 0 THEN d ELSE p.val

\* ------------------------------------------------------- request inputs
Absent == [present |-> FALSE]
Text(chars) == [present |-> TRUE, chars |-> chars]

PageParams == {Absent, Text(<<"x">>), Text(<<"2">>), Text(<<"-", "1">>)}
LimitParams == {Absent, Text(<<"1">>)}

\* a message of a request body; NoTimestamp stands for a missing timestamp
Hello == [role |-> "user", content |-> "Hello", timestamp |-> NoTimestamp]
HiThere == [role |-> "assistant", content |-> "Hi there!", timestamp |-> 1]

\* the request bodies' message arrays: Hello, Hi there!, Hello, ... of each length
Batch(n) == [i \in 1..n |-> IF i % 2 = 1 THEN Hello ELSE HiThere]
Batches == {Batch(n) : n \in 0..MaxBatch}

\* body.messages: missing, a non-empty string (not an array), or an array
MessagesFields == {[kind |-> "undefined"], [kind |-> "string"]} \cup
                  {[kind |-> "array", items |-> b] : b \in Batches}
\* a value that is not an array has no map method
HasMap(m) == m.kind # "string"

MetadataFields == {[present |-> FALSE]}

CreateBodies ==
  [sessionId : {"session-1", Undefined}, userId : Users \cup {""},
   messages : MessagesFields, metadata : MetadataFields]

\* ------------------------------------------------- controller and service
\* historyController.create: if (!sessionId || !userId) throw 400
CreateBodyOk(body) == ~(Falsy(body.sessionId) \/ Falsy(body.userId))

UpdateBodyOkAllowEmpty(m) == m.kind = "array"

\* historyController.update:
\* if (!messages || !Array.isArray(messages) || messages.length === 0) throw 400
UpdateBodyOk(m) == m.kind = "array" /\ Len(m.items) # 0

\* historyController.list: if (!userId) throw 400
ListQueryOk(userId) == ~Falsy(userId)

\* { role, content, timestamp: m.timestamp || now }
Stamp(m, now) ==
  [role |-> m.role, content |-> m.content,
   timestamp |-> IF m.timestamp = NoTimestamp THEN now ELSE m.timestamp]

StampAll(items, now) == [i \in 1..Len(items) |-> Stamp(items[i], now)]

NewDocNoDefault(body, now) ==
  IF body.messages.kind = "array"
    THEN [sessionId |-> body.sessionId, userId |-> body.userId,
          messages |-> StampAll(body.messages.items, now),
          metadata |-> [source |-> "web", agentModel |-> Null],
          createdAt |-> now, updatedAt |-> now]
    ELSE [sessionId |-> body.sessionId, userId |-> body.userId,
          metadata |-> [source |-> "web", agentModel |-> Null],
          createdAt |-> now, updatedAt |-> now]

\* createConversation (messages || [], metadata || {}) and the document
\* ConversationHistory.create builds from it
NewDoc(body, now) ==
  [sessionId |-> body.sessionId,
   userId |-> body.userId,
   messages |-> StampAll(IF body.messages.kind = "array"
                           THEN body.messages.items ELSE <<>>, now),
   metadata |-> [source |-> IF body.metadata.present /\ ~Falsy(body.metadata.source)
                              THEN body.metadata.source ELSE "web",
                 agentModel |-> Null],
   createdAt |-> now,
   updatedAt |-> now]

NotFoundOrAsIs(conversation) == Json(200, conversation)

\* getConversation / appendMessages / deleteConversation with the controller
\* around them: null becomes ApiError(404), anything else is sent with 200
NotFoundOr200(conversation) ==
  IF conversation = Null
    THEN ErrorHandler(ApiError(404, "Conversation not found"))
    ELSE Json(200, conversation)

\* listConversations: the pagination block
ListResult(conversations, page, limit, total) ==
  [conversations |-> conversations,
   pagination |-> [page |-> page, limit |-> limit, total |-> total,
                   pages |-> Ceil(total, limit)]]

\* ---------------------------------------------------------------- state
NoReq == [op |-> "none"]
NoLoc == [none |-> TRUE]
NoBefore == [exists |-> FALSE]
NoOut == [op |-> "none"]

\* a request is taken by the lowest free slot
CanStart(r) ==
  /\ pc[r] = "idle"
  /\ \A q \in 1..(r - 1) : pc[q] # "idle"
  /\ IF serial THEN nOps < MaxSerialOps /\ \A q \in Reqs : pc[q] = "idle"
               ELSE nOps < MaxOps

\* what the targeted document holds when a request arrives
Snapshot(id) ==
  IF id \in DOMAIN store
    THEN [exists |-> TRUE, len |-> Len(store[id].messages),
          updatedAt |-> store[id].updatedAt]
    ELSE NoBefore

\* the request enters its handler, which runs up to its first store call
Begin(r, request, next, locals, snap) ==
  /\ req' = [req EXCEPT ![r] = request]
  /\ pc' = [pc EXCEPT ![r] = next]
  /\ loc' = [loc EXCEPT ![r] = locals]
  /\ out' = NoOut
  /\ nOps' = nOps + 1
  /\ others' = [others EXCEPT ![r] = 0]
  /\ before' = [before EXCEPT ![r] = snap]
  /\ UNCHANGED restVars

\* the request is answered at once, before any store call
Reject(r, request, response) ==
  /\ out' = [op |-> request.op, request |-> request, response |-> response,
             locals |-> NoLoc, before |-> NoBefore, others |-> 0]
  /\ nOps' = nOps + 1
  /\ UNCHANGED <<pc, req, loc, others, before, restVars>>

\* the handler goes on to its next store call
Goto(r, next, locals) ==
  /\ pc' = [pc EXCEPT ![r] = next]
  /\ loc' = [loc EXCEPT ![r] = locals]
  /\ out' = NoOut
  /\ UNCHANGED <<req, nOps, before, restVars>>

\* the handler answers and its slot is free again
Finish(r, response) ==
  /\ out' = [op |-> req[r].op, request |-> req[r], response |-> response,
             locals |-> loc[r], before |-> before[r], others |-> others[r]]
  /\ pc' = [pc EXCEPT ![r] = "idle"]
  /\ req' = [req EXCEPT ![r] = NoReq]
  /\ loc' = [loc EXCEPT ![r] = NoLoc]
  /\ before' = [before EXCEPT ![r] = NoBefore]
  /\ UNCHANGED <<nOps, restVars>>

\* a Firestore instance of firebase-admin
Handle(n) == [set |-> TRUE, firestore |-> n]
\* a variable that holds no instance (let db; is undefined)
NoHandle == [set |-> FALSE]

\* FIREBASE_SERVICE_ACCOUNT: the JSON text of a service account
JsonAccount == [present |-> TRUE, chars |-> <<"{", "}">>]

NoResult == [call |-> "none"]

\* the server has started: initializeFirebase has returned and app.listen
\* has been called
Started ==
  /\ env = JsonAccount
  /\ apps = 1
  /\ created = 1
  /\ cached = Handle(1)
  /\ db = Handle(1)
  /\ proc = "listening"
  /\ exitCode = Null
  /\ result = NoResult
  /\ nCalls = 0
  /\ firstDb = Handle(1)

InitData ==
  /\ store = <<>>
  /\ idCounter = 0
  /\ clock = 1
  /\ pc = [r \in Reqs |-> "idle"]
  /\ req = [r \in Reqs |-> NoReq]
  /\ loc = [r \in Reqs |-> NoLoc]
  /\ out = NoOut
  /\ nOps = 0
  /\ initLen = [id \in IdPool |-> 0]
  /\ acked = [id \in IdPool |-> 0]
  /\ others = [r \in Reqs |-> 0]
  /\ before = [r \in Reqs |-> NoBefore]
  /\ lastAppended = [u \in Users |-> 0]
  /\ handler = "idle"
  /\ hreq = NoReq
  /\ hloc = NoLoc
  /\ calls = <<>>
  /\ reply = NoOut

InitStore == InitData /\ Started

\* requests arrive while others are being served
Init == InitStore /\ serial = FALSE

\* one client that awaits each response
InitSerial == InitStore /\ serial = TRUE

\* the wall clock advances
Tick ==
  /\ clock < MaxClock
  /\ clock' = clock + 1
  /\ out' = NoOut
  /\ UNCHANGED <<storeVars, reqVars, histVars, restVars>>

\* the documents a call in progress is still to add
Pending(q) ==
  CASE pc[q] = "create_add" -> 1
    [] pc[q] \in {"batch_add", "batch_build"} ->
         Len(req[q].items) - Len(loc[q].results)
    [] OTHER -> 0

\* ids given out and ids the calls in progress will take
Reserved ==
  LET RECURSIVE Sum(_)
      Sum(q) == IF q = 0 THEN 0 ELSE Pending(q) + Sum(q - 1)
  IN  idCounter + Sum(MaxReqs)

\* --------------------------------------------------- POST /history
\* historyController.create up to the call of collection.add: the body is
\* checked, new Date() is read and the document is built
PostStart(r) ==
  /\ CanStart(r)
  /\ \E body \in CreateBodies :
       LET request == [op |-> "POST", body |-> body]
       IN  IF ~CreateBodyOk(body)
             THEN Reject(r, request,
                         ErrorHandler(ApiError(400, "sessionId and userId are required")))
             ELSE IF ~HasMap(body.messages)
             THEN Reject(r, request,
                         ErrorHandler(PlainError("(data.messages || []).map is not a function")))
             ELSE /\ Reserved < MaxIds
                  /\ Begin(r, request, "create_add", [doc |-> NewDoc(body, clock)],
                           NoBefore)
  /\ UNCHANGED <<storeVars, clock, initLen, acked, lastAppended>>

\* collection.add takes effect; create returns { id: ref.id, ...doc } and the
\* controller answers 201
CreateAdd(r) ==
  /\ pc[r] = "create_add"
  /\ LET id == NewId(store, idCounter)
     IN  /\ idCounter' = id
         /\ store' = MockAdd(store, id, loc[r].doc)
         /\ initLen' = [initLen EXCEPT ![id] = Len(Field(loc[r].doc, "messages"))]
         /\ Finish(r, Json(201, JsonClone(("id" :> id) @@ loc[r].doc)))
  /\ UNCHANGED <<clock, acked, others, lastAppended>>

\* ------------------------------- ConversationHistory.create([...])
\* the records of a batch, as the tests pass them: sessionId, userId, messages: []
BatchSession == "user-1" :> "s1" @@ "user-2" :> "s3"
BatchItems ==
  {[sessionId |-> BatchSession[u], userId |-> u,
    messages |-> [kind |-> "array", items |-> <<>>],
    metadata |-> [present |-> FALSE]] : u \in Users}

BatchInputs == UNION {[1..n -> BatchItems] : n \in 0..MaxIds}

Resolved(value) == [status |-> "resolved", body |-> value]

NextItemFirst(items, results) == items[1]

\* for (const item of data): the item the loop is at when results holds the
\* records of the items before it
NextItem(items, results) == items[Len(results) + 1]

\* create called with an array: the loop enters create(item) for the first
\* item, which builds its document and calls collection.add; an empty array
\* is answered [] at once
BatchStart(r) ==
  /\ CanStart(r)
  /\ \E items \in BatchInputs :
       LET request == [op |-> "CREATE_MANY", items |-> items]
       IN  IF items = <<>>
             THEN Reject(r, request, Resolved(<<>>))
             ELSE /\ Reserved + Len(items) <= MaxIds
                  /\ Begin(r, request, "batch_add",
                           [results |-> <<>>, doc |-> NewDoc(NextItem(items, <<>>), clock)],
                           NoBefore)
  /\ UNCHANGED <<storeVars, clock, initLen, acked, lastAppended>>

\* collection.add of the current item takes effect and its record is pushed
\* to results; after the last item the results are returned
BatchAdd(r) ==
  /\ pc[r] = "batch_add"
  /\ LET id == NewId(store, idCounter)
         results == Append(loc[r].results, ("id" :> id) @@ loc[r].doc)
     IN  /\ idCounter' = id
         /\ store' = MockAdd(store, id, loc[r].doc)
         /\ initLen' = [initLen EXCEPT ![id] = Len(Field(loc[r].doc, "messages"))]
         /\ IF Len(results) = Len(req[r].items)
              THEN Finish(r, Resolved(results))
              ELSE Goto(r, "batch_build", [results |-> results])
  /\ UNCHANGED <<clock, acked, others, lastAppended>>

\* the loop goes on: create(item) for the next item builds its document
BatchBuild(r) ==
  /\ pc[r] = "batch_build"
  /\ Goto(r, "batch_add",
          [results |-> loc[r].results,
           doc |-> NewDoc(NextItem(req[r].items, loc[r].results), clock)])
  /\ UNCHANGED <<storeVars, clock, initLen, acked, others, lastAppended>>

\* --------------------------------------------------- PUT /history/:id
Appending(r) == pc[r] \in {"append_get", "append_now", "append_update", "append_reread"}

\* historyController.update up to the call of docRef.get: the body is checked
PutStart(r) ==
  /\ CanStart(r)
  /\ \E id \in IdPool, m \in MessagesFields :
       LET request == [op |-> "PUT", id |-> id, messages |-> m]
       IN  IF ~UpdateBodyOk(m)
             THEN Reject(r, request,
                    ErrorHandler(ApiError(400,
                      "messages array is required and must not be empty")))
             ELSE Begin(r, request, "append_get", NoLoc, Snapshot(id))
  /\ UNCHANGED <<storeVars, clock, initLen, acked, lastAppended>>

\* appendMessages: docRef.get takes effect; a missing document makes the
\* repository return null and the service throw 404
AppendGet(r) ==
  /\ pc[r] = "append_get"
  /\ LET doc == DocGet(store, req[r].id)
     IN  IF ~doc.exists
           THEN Finish(r, NotFoundOr200(Null))
           ELSE Goto(r, "append_now", NoLoc)
  /\ UNCHANGED <<storeVars, clock, initLen, acked, others, lastAppended>>

\* appendMessages after the get: new Date() is read, the messages are
\* stamped and docRef.update is called
AppendNow(r) ==
  /\ pc[r] = "append_now"
  /\ Goto(r, "append_update",
          [now |-> clock, newMessages |-> StampAll(req[r].messages.items, clock)])
  /\ UNCHANGED <<storeVars, clock, initLen, acked, others, lastAppended>>

\* docRef.update takes effect: the store appends the elements and sets
\* updatedAt, or throws 'Document not found', an Error without statusCode
AppendUpdate(r) ==
  /\ pc[r] = "append_update"
  /\ LET id == req[r].id
     IN  IF id \notin DOMAIN store
           THEN /\ Finish(r, ErrorHandler(PlainError("Document not found")))
                /\ UNCHANGED <<store, others, lastAppended>>
           ELSE /\ store' = MockUpdate(store, id, loc[r].newMessages, loc[r].now)
                /\ Goto(r, "append_reread", loc[r])
                /\ others' = [q \in Reqs |->
                      IF q # r /\ Appending(q) /\ req[q].id = id
                        THEN others[q] + Len(loc[r].newMessages) ELSE others[q]]
                /\ lastAppended' =
                     [lastAppended EXCEPT ![Field(store[id], "userId")] = id]
  /\ UNCHANGED <<idCounter, clock, initLen, acked>>

\* the second docRef.get takes effect; { id, ...updated.data() } is returned
\* and answered with 200
AppendReread(r) ==
  /\ pc[r] = "append_reread"
  /\ Finish(r, NotFoundOr200(WithId(DocGet(store, req[r].id))))
  /\ acked' = [acked EXCEPT ![req[r].id] = @ + Len(loc[r].newMessages)]
  /\ UNCHANGED <<storeVars, clock, initLen, others, lastAppended>>

\* --------------------------------------------------- DELETE /history/:id
DeleteStart(r) ==
  /\ CanStart(r)
  /\ \E id \in IdPool :
       Begin(r, [op |-> "DELETE", id |-> id], "delete_get", NoLoc, Snapshot(id))
  /\ UNCHANGED <<storeVars, clock, initLen, acked, lastAppended>>

\* deleteById: docRef.get takes effect; null (404) when the document is missing
DeleteGet(r) ==
  /\ pc[r] = "delete_get"
  /\ LET doc == DocGet(store, req[r].id)
     IN  IF ~doc.exists
           THEN Finish(r, NotFoundOr200(Null))
           ELSE Goto(r, "delete_delete", [data |-> WithId(doc)])
  /\ UNCHANGED <<storeVars, clock, initLen, acked, others, lastAppended>>

\* docRef.delete takes effect; the service returns the record read before
\* and the controller answers 204 without a body
DeleteDelete(r) ==
  /\ pc[r] = "delete_delete"
  /\ store' = MockDelete(store, req[r].id)
  /\ Finish(r, [status |-> 204, returned |-> loc[r].data])
  /\ UNCHANGED <<idCounter, clock, initLen, acked, others, lastAppended>>

\* --------------------------------------------------- GET /history/:id
GetStart(r) ==
  /\ CanStart(r)
  /\ \E id \in IdPool :
       Begin(r, [op |-> "GET", id |-> id], "get_get", NoLoc, Snapshot(id))
  /\ UNCHANGED <<storeVars, clock, initLen, acked, lastAppended>>

\* findById: docRef.get takes effect; 200 with the record or 404
GetGet(r) ==
  /\ pc[r] = "get_get"
  /\ Finish(r, NotFoundOr200(FindById(store, req[r].id)))
  /\ UNCHANGED <<storeVars, clock, initLen, acked, others, lastAppended>>

\* --------------------------------------------------- GET /history
\* historyController.list up to the two store queries of findByUserId
ListStart(r) ==
  /\ CanStart(r)
  /\ \E userId \in Users \cup {Undefined}, p \in PageParams, l \in LimitParams :
       IF ~ListQueryOk(userId)
         THEN Reject(r, [op |-> "LIST", userId |-> userId],
                     ErrorHandler(ApiError(400, "userId query parameter is required")))
         ELSE Begin(r, [op |-> "LIST", userId |-> userId,
                        query |-> [page |-> p, limit |-> l],
                        page |-> OrDefault(ParseInt(p), DefaultPage),
                        limit |-> OrDefault(ParseInt(l), DefaultLimit)],
                    "list_wait", [havePage |-> FALSE, haveCount |-> FALSE], NoBefore)
  /\ UNCHANGED <<storeVars, clock, initLen, acked, lastAppended>>

ListDone(r, locals) ==
  IF locals.havePage /\ locals.haveCount
    THEN Finish(r, Json(200, ListResult(locals.conversations, req[r].page,
                                        req[r].limit, locals.total)))
    ELSE Goto(r, "list_wait", locals)

\* the owner's conversations a query of the listing finds in the store
\* (kept with the request for the properties, the handler does not have it)
Seen(r) == {id \in DOMAIN store : Field(store[id], "userId") = req[r].userId}

\* the page query of Promise.all takes effect
ListPage(r) ==
  /\ pc[r] = "list_wait"
  /\ ~loc[r].havePage
  /\ ListDone(r, [havePage |-> TRUE] @@ [seen |-> Seen(r)] @@
                 [conversations |-> PageQuery(store, req[r].userId,
                     Offset(req[r].page, req[r].limit), req[r].limit)] @@ loc[r])
  /\ UNCHANGED <<storeVars, clock, initLen, acked, others, lastAppended>>

\* the count query of Promise.all takes effect
ListCount(r) ==
  /\ pc[r] = "list_wait"
  /\ ~loc[r].haveCount
  /\ ListDone(r, [haveCount |-> TRUE] @@ [seen |-> Seen(r)] @@
                 [total |-> CountQuery(store, req[r].userId)] @@ loc[r])
  /\ UNCHANGED <<storeVars, clock, initLen, acked, others, lastAppended>>

\* ------------------------------------------------------------ the system
\* --------------------------------------------------- the store fails
\* the awaits at which a store call of the handler is pending
StoreCallPending(r) ==
  pc[r] \in {"create_add", "batch_add", "append_get", "append_update",
             "append_reread", "delete_get", "delete_delete", "get_get",
             "list_wait"}

\* the error of a store call that fails: an Error without statusCode
StoreUnavailable == PlainError("UNAVAILABLE")

\* a pending store call rejects without having taken effect; the repository
\* and the service let the error through, the controller passes it to the
\* error handler (a batch create called directly rejects with it)
StoreError(r) ==
  /\ StoreCallPending(r)
  /\ Finish(r, IF req[r].op = "CREATE_MANY"
                 THEN [status |-> "rejected", error |-> StoreUnavailable]
                 ELSE ErrorHandler(StoreUnavailable))
  /\ UNCHANGED <<storeVars, clock, initLen, acked, others, lastAppended>>

\* ================================================= agent proxy and health
\* what a step of the agent and health endpoints leaves as it is
dataVars == <<store, idCounter, clock, pc, req, loc, out, nOps, serial,
              initLen, acked, others, before, lastAppended, bootVars>>

\* bodies of the agent server's answers
NoData == [kind |-> "none"]
ReplyBody == [kind |-> "object", reply |-> "Hello!"]
HealthBody == [kind |-> "object", status |-> "ok"]
\* error bodies: { error: { message } }, the same with an empty message,
\* { error, status_code, details } with error a string, and no body
ErrorBodies ==
  {[kind |-> "object", error |-> [kind |-> "object", message |-> "Bad input"]],
   [kind |-> "object", error |-> [kind |-> "object", message |-> ""]],
   [kind |-> "object", error |-> [kind |-> "string", value |-> "Validation Error"],
    details |-> "message is required"],
   NoData}

SuccessStatuses == {200, 204}
ErrorStatuses == {400, 422, 500}
TransportErrors == {"ECONNREFUSED", "ECONNABORTED"}

\* how an axios call settles: resolved with the response for a 2xx status,
\* rejected with err.response for any other status, rejected without
\* err.response when no answer came (connection refused, timeout)
Resolved2xx(status, data) ==
  [settled |-> "resolved", response |-> [status |-> status, data |-> data]]
RejectedWithResponse(status, data) ==
  [settled |-> "rejected", hasResponse |-> TRUE,
   response |-> [status |-> status, data |-> data]]
RejectedNoResponse(code) ==
  [settled |-> "rejected", hasResponse |-> FALSE, code |-> code]

Outcomes(body) ==
  {Resolved2xx(st, body) : st \in SuccessStatuses}
    \cup {RejectedWithResponse(st, d) : st \in ErrorStatuses, d \in ErrorBodies}
    \cup {RejectedNoResponse(c) : c \in TransportErrors}

\* err.response.data?.error?.message
ErrorMessageOf(data) ==
  IF data.kind = "object" /\ "error" \in DOMAIN data
     /\ data.error.kind = "object" /\ "message" \in DOMAIN data.error
    THEN data.error.message ELSE Undefined

\* agentService.chat, catch: the upstream's status and message, or 502
ChatError(err) ==
  IF err.hasResponse
    THEN ApiError(err.response.status,
                  IF Falsy(ErrorMessageOf(err.response.data))
                    THEN "Agent Server error"
                    ELSE ErrorMessageOf(err.response.data))
    ELSE ApiError(502, "Agent Server unavailable")

StatusErrorRelayed(err) == ChatError(err)

\* agentService.getStatus, catch (_err): always 502
StatusError(err) == ApiError(502, "Agent Server unavailable")

ChatBodies ==
  [message : {Undefined, "", "Hi"}, sessionId : {Undefined, "s1"},
   userId : {Undefined, "u1"}]

ChatBodyOkAlways(body) == TRUE

\* agentController.chat: if (!message) throw 400
ChatBodyOk(body) == ~Falsy(body.message)

\* the handler answers
Answer(request, response, made, upstream) ==
  /\ reply' = [op |-> request.op, request |-> request, response |-> response,
               calls |-> made, upstream |-> upstream]
  /\ handler' = "idle"
  /\ hreq' = NoReq
  /\ hloc' = NoLoc
  /\ calls' = <<>>

\* the handler makes a call and awaits it
Await(next, request, locals, call) ==
  /\ handler' = next
  /\ hreq' = request
  /\ hloc' = locals
  /\ calls' = Append(calls, call)
  /\ UNCHANGED reply

\* agentController.chat up to agentClient.post
ChatStart ==
  /\ handler = "idle"
  /\ \E body \in ChatBodies :
       LET request == [op |-> "CHAT", body |-> body]
       IN  IF ~ChatBodyOk(body)
             THEN Answer(request, ErrorHandler(ApiError(400, "message is required")),
                         <<>>, NoData)
             ELSE Await("chat", request, NoLoc,
                        [method |-> "POST", url |-> "/api/chat",
                         payload |-> [message |-> body.message,
                                      sessionId |-> body.sessionId,
                                      userId |-> body.userId]])
  /\ UNCHANGED dataVars

\* agentClient.post settles; the body is answered with 200 or the error is
\* passed to the error handler
ChatSettle ==
  /\ handler = "chat"
  /\ \E o \in Outcomes(ReplyBody) :
       Answer(hreq,
              IF o.settled = "resolved" THEN Json(200, o.response.data)
                                        ELSE ErrorHandler(ChatError(o)),
              calls, o)
  /\ UNCHANGED dataVars

\* agentController.status up to agentClient.get
StatusStart ==
  /\ handler = "idle"
  /\ Await("status", [op |-> "STATUS"], NoLoc,
           [method |-> "GET", url |-> "/api/health"])
  /\ UNCHANGED dataVars

\* agentClient.get settles
StatusSettle ==
  /\ handler = "status"
  /\ \E o \in Outcomes(HealthBody) :
       Answer(hreq,
              IF o.settled = "resolved" THEN Json(200, o.response.data)
                                        ELSE ErrorHandler(StatusError(o)),
              calls, o)
  /\ UNCHANGED dataVars

AgentStatusByOutcome(o) ==
  IF o.settled = "resolved" THEN "connected" ELSE "disconnected"

\* healthController: response.status === 200 ? 'connected' : 'degraded',
\* 'disconnected' in the catch
AgentStatus(o) ==
  IF o.settled = "resolved"
    THEN (IF o.response.status = 200 THEN "connected" ELSE "degraded")
    ELSE "disconnected"

\* healthController: 'connected' after listCollections resolved,
\* 'disconnected' in the catch
FirestoreStatus(probed) == IF probed THEN "connected" ELSE "disconnected"

AgentProbe == [method |-> "GET", url |-> "/health"]

\* getHealth up to its first await: getDb() throws when the store handle is
\* not set, which the catch turns into 'disconnected'; else listCollections
\* is called
HealthStart ==
  /\ handler = "idle"
  /\ \E dbSet \in BOOLEAN :
       IF dbSet
         THEN Await("health_store", [op |-> "HEALTH"],
                    [firestoreStatus |-> "disconnected"],
                    [method |-> "listCollections"])
         ELSE Await("health_agent", [op |-> "HEALTH"],
                    [firestoreStatus |-> FirestoreStatus(FALSE), probed |-> "threw"],
                    AgentProbe)
  /\ UNCHANGED dataVars

\* listCollections settles; axios.get of the agent's health is called
HealthStore ==
  /\ handler = "health_store"
  /\ \E ok \in BOOLEAN :
       Await("health_agent", hreq,
             [firestoreStatus |-> FirestoreStatus(ok),
              probed |-> IF ok THEN "resolved" ELSE "rejected"],
             AgentProbe)
  /\ UNCHANGED dataVars

\* the agent probe settles and the health body is answered
HealthAgent ==
  /\ handler = "health_agent"
  /\ \E o \in Outcomes(HealthBody) :
       Answer([op |-> "HEALTH", probed |-> hloc.probed],
              Json(200, [status |-> "ok", service |-> "general-request-service",
                         firestore |-> hloc.firestoreStatus,
                         agent |-> AgentStatus(o),
                         timestamp |-> clock]),
              calls, o)
  /\ UNCHANGED dataVars

NextProxy ==
  \/ ChatStart \/ ChatSettle
  \/ StatusStart \/ StatusSettle
  \/ HealthStart \/ HealthStore \/ HealthAgent

Next ==
  \/ Tick
  \/ \E r \in Reqs :
       \/ PostStart(r) \/ CreateAdd(r)
       \/ BatchStart(r) \/ BatchAdd(r) \/ BatchBuild(r)
       \/ PutStart(r) \/ AppendGet(r) \/ AppendNow(r) \/ AppendUpdate(r)
       \/ AppendReread(r)
       \/ DeleteStart(r) \/ DeleteGet(r) \/ DeleteDelete(r)
       \/ GetStart(r) \/ GetGet(r)
       \/ ListStart(r) \/ ListPage(r) \/ ListCount(r)

Spec == Init /\ [][Next]_vars

SpecSerial == InitSerial /\ [][Next]_vars

NextFaulty == Next \/ \E r \in Reqs : StoreError(r)

\* one client awaiting each response, with a store whose calls may fail
SpecFaulty == InitSerial /\ [][NextFaulty]_vars

\* the agent and health endpoints, whatever the agent server and the store
\* probe answer
SpecProxy == Init /\ [][NextProxy]_vars

\* ======================================== store handle and server start
\* what a step of the start-up leaves as it is
servingVars == <<store, idCounter, clock, pc, req, loc, out, nOps, serial,
                 initLen, acked, others, before, lastAppended, proxyVars>>

\* the values of FIREBASE_SERVICE_ACCOUNT: not set, the JSON text of a
\* service account, text that starts like JSON and is not, and a file path
ServiceAccounts == {Absent, JsonAccount, Text(<<"{">>), Text(<<"k", "e", "y">>)}

\* serviceAccount.startsWith('{')
StartsWithBrace(account) == account # <<>> /\ Head(account) = "{"

\* JSON.parse(serviceAccount) returns for an object text and throws otherwise
JsonParses(account) ==
  /\ Len(account) >= 2
  /\ Head(account) = "{"
  /\ account[Len(account)] = "}"

Returned(call, by, value) ==
  [call |-> call, by |-> by, status |-> "returned", value |-> value]
Threw(call, by, message) ==
  [call |-> call, by |-> by, status |-> "threw", message |-> message]

\* getFirestore(): firebase-admin creates the Firestore instance of the
\* default app at the first call and returns that instance at every call
GetFirestore(instance, made) ==
  IF instance = NoHandle THEN Handle(made + 1) ELSE instance

GetDbUnchecked(handle, by) == Returned("getDb", by, handle)

\* getDb: throws while db is not set, returns db otherwise
GetDb(handle, by) ==
  IF handle = NoHandle
    THEN Threw("getDb", by,
      "Firebase not initialized. Set FIREBASE_SERVICE_ACCOUNT to enable Firestore.")
    ELSE Returned("getDb", by, handle)

\* initializeFirebase called by `by`: with no app yet, the credential is
\* taken from the environment (JSON.parse throws for text that is not JSON,
\* cert and initializeApp may reject what they are given) and the app is
\* initialized; then db = getFirestore(), which may throw as well, and db is
\* returned.  appOk and firestoreOk are what firebase-admin does.
InitializeFirebase(by, appOk, firestoreOk) ==
  LET needsApp == apps = 0
      parseFails == /\ needsApp
                    /\ env.present
                    /\ StartsWithBrace(env.chars)
                    /\ ~JsonParses(env.chars)
      appFails == needsApp /\ (parseFails \/ ~appOk)
      handle == GetFirestore(cached, created)
  IN  /\ nCalls' = nCalls + 1
      /\ IF appFails
           THEN /\ result' = Threw("initializeFirebase", by,
                                   IF parseFails THEN "SyntaxError"
                                   ELSE "invalid credential")
                /\ UNCHANGED <<apps, created, cached, db, firstDb>>
           ELSE /\ apps' = 1
                /\ IF ~firestoreOk
                     THEN /\ result' = Threw("initializeFirebase", by,
                                             "getFirestore failed")
                          /\ UNCHANGED <<created, cached, db, firstDb>>
                     ELSE /\ created' = IF cached = NoHandle
                                          THEN created + 1 ELSE created
                          /\ cached' = handle
                          /\ db' = handle
                          /\ firstDb' = IF firstDb = NoHandle
                                          THEN handle ELSE firstDb
                          /\ result' = Returned("initializeFirebase", by, handle)

\* server.js start(): initializeFirebase, then app.listen; an error thrown by
\* either is caught and the process exits with code 1
Start ==
  /\ proc = "loaded"
  /\ \E appOk, firestoreOk, listenOk \in BOOLEAN :
       /\ InitializeFirebase("start", appOk, firestoreOk)
       /\ IF result'.status = "returned" /\ listenOk
            THEN proc' = "listening" /\ exitCode' = exitCode
            ELSE proc' = "exited" /\ exitCode' = ExitFailure
  /\ UNCHANGED <<env, servingVars>>

\* a user of config/firebase other than start() calls initializeFirebase
InitializeCall ==
  /\ proc # "exited"
  /\ nCalls < MaxBootCalls
  /\ \E appOk, firestoreOk \in BOOLEAN :
       InitializeFirebase("caller", appOk, firestoreOk)
  /\ UNCHANGED <<env, proc, exitCode, servingVars>>

\* the repository (getCollection) or the health controller calls getDb
GetDbCall ==
  /\ proc # "exited"
  /\ nCalls < MaxBootCalls
  /\ nCalls' = nCalls + 1
  /\ result' = GetDb(db, "caller")
  /\ UNCHANGED <<env, apps, created, cached, db, proc, exitCode, firstDb,
                 servingVars>>

\* the process has loaded its modules; start() has not run yet
InitBoot ==
  /\ InitData
  /\ serial = FALSE
  /\ env \in ServiceAccounts
  /\ apps = 0
  /\ created = 0
  /\ cached = NoHandle
  /\ db = NoHandle
  /\ proc = "loaded"
  /\ exitCode = Null
  /\ result = NoResult
  /\ nCalls = 0
  /\ firstDb = NoHandle

NextBoot == Start \/ InitializeCall \/ GetDbCall

\* the process from module load on, with the calls of the store-handle module
SpecBoot == InitBoot /\ [][NextBoot]_vars

\* ------------------------------------------------------------ properties
RECURSIVE SumOver(_, _)
SumOver(S, f) ==
  IF S = {} THEN 0
  ELSE LET x == CHOOSE y \in S : TRUE IN f[x] + SumOver(S \ {x}, f)

\* sub occurs in s as a run of neighbouring elements, in its order
Contains(s, sub) ==
  \E k \in 0..(Len(s) - Len(sub)) : \A i \in 1..Len(sub) : s[k + i] = sub[i]

\* the requests whose append has been applied to id and that are not answered yet
Applied(id) == {r \in Reqs : pc[r] = "append_reread" /\ req[r].id = id}

Answered(op, code) == out.op = op /\ out.response.status = code

HasMessages(body) == "messages" \in DOMAIN body

\* C1: no lost updates under concurrent appenders: in every reachable state a
\* stored conversation holds the messages it was created with plus every
\* message of every append applied to it, however the appends interleave, and
\* each batch stands in it (and in the record its call returns) in its own order
C1_NoLostUpdates ==
  /\ \A id \in DOMAIN store :
       /\ Len(store[id].messages) =
            initLen[id] + acked[id]
              + SumOver(Applied(id), [r \in Reqs |-> Len(loc[r].newMessages)])
       /\ \A r \in Applied(id) : Contains(store[id].messages, loc[r].newMessages)
  /\ (Answered("PUT", 200) /\ HasMessages(out.response.body))
       => Contains(out.response.body.messages, out.locals.newMessages)

\* two appends to one conversation, both applied while both calls were running
C1_Witness ==
  \E r, q \in Reqs :
    /\ r # q
    /\ pc[r] = "append_reread" /\ pc[q] = "append_reread"
    /\ req[r].id = req[q].id /\ req[r].id \in DOMAIN store
    /\ others[r] > 0

\* C2 as stated: the record an append returns has exactly n more messages than
\* the conversation had before the call, and an updatedAt not before the
\* previous one
C2_ExactlyNMore ==
  (Answered("PUT", 200) /\ out.before.exists /\ HasMessages(out.response.body))
    => /\ Len(out.response.body.messages) =
            out.before.len + Len(out.request.messages.items)
       /\ out.response.body.updatedAt >= out.before.updatedAt

\* C2 as amended: the update an append applies adds exactly its n messages to
\* the stored conversation and writes the call's timestamp, which is not
\* before the updatedAt the conversation had before the call; the record
\* returned has the n messages plus those other calls appended meanwhile
C2_AppendAddsN ==
  [][
      /\ \A r \in Reqs :
          (pc[r] = "append_update" /\ pc'[r] = "append_reread")
            => /\ Len(store'[req[r].id].messages) =
                    Len(store[req[r].id].messages) + Len(req[r].messages.items)
               /\ store'[req[r].id].updatedAt = loc[r].now
               /\ (before[r].exists => loc[r].now >= before[r].updatedAt)
      /\ (out'.op = "PUT" /\ out'.response.status = 200 /\ out'.before.exists
           /\ HasMessages(out'.response.body))
          => Len(out'.response.body.messages) =
               out'.before.len + Len(out'.request.messages.items) + out'.others
    ]_vars

\* an append answered with a record that holds another call's messages too
C2_Witness ==
  /\ Answered("PUT", 200) /\ out.before.exists /\ HasMessages(out.response.body)
  /\ out.others > 0

\* C3: an append to an id that is not in the store is answered 404
\* 'Conversation not found' and leaves the store as it was: no record is
\* created
C3_AppendMissingIs404 ==
  [][\A r \in Reqs :
        (pc[r] = "append_get" /\ pc'[r] # "append_get"
         /\ req[r].id \notin DOMAIN store)
          => /\ out'.op = "PUT"
             /\ out'.response.status = 404
             /\ out'.response.body.error.message = "Conversation not found"
             /\ store' = store
             /\ req[r].id \notin DOMAIN store'
    ]_vars

\* an append to a missing id was answered while another conversation is stored
C3_Witness ==
  /\ Answered("PUT", 404)
  /\ out.request.id \notin DOMAIN store
  /\ DOMAIN store # {}

\* C4: when the delete of an existing conversation is applied, the count of
\* all documents drops by exactly one, a lookup of the id finds nothing (404)
\* and every other conversation is as it was
C4_DeleteRemovesOne ==
  [][\A r \in Reqs :
        (pc[r] = "delete_delete" /\ pc'[r] # "delete_delete"
         /\ req[r].id \in DOMAIN store)
          => /\ CountDocuments(store') = CountDocuments(store) - 1
             /\ FindById(store', req[r].id) = Null
             /\ NotFoundOr200(FindById(store', req[r].id)).status = 404
             /\ \A o \in DOMAIN store \ {req[r].id} :
                  o \in DOMAIN store' /\ store'[o] = store[o]
             /\ out'.response.status = 204
    ]_vars

\* a conversation was deleted and another one is still stored
C4_Witness ==
  /\ Answered("DELETE", 204)
  /\ out.request.id \notin DOMAIN store
  /\ DOMAIN store # {}

Owned(st, u) == {id \in DOMAIN st : st[id].userId = u}

\* C5: every conversation a listing returns belongs to the requested owner,
\* and the total is the number of that owner's conversations in the store
\* when the count query is applied; other owners' records are never counted
C5_ListScopedToOwner ==
  [][
      /\ (out'.op = "LIST" /\ out'.response.status = 200)
          => \A i \in DOMAIN out'.response.body.conversations :
               out'.response.body.conversations[i].userId = out'.request.userId
      /\ \A r \in Reqs :
          (pc[r] = "list_wait" /\ ~loc[r].haveCount)
            => /\ ((pc'[r] = "list_wait" /\ loc'[r].haveCount)
                    => loc'[r].total = Cardinality(Owned(store, req[r].userId)))
               /\ ((pc'[r] = "idle" /\ loc[r].havePage)
                    => out'.response.body.pagination.total =
                         Cardinality(Owned(store, req[r].userId)))
    ]_vars

\* a listing for one owner was answered while the other owner has records too
C5_Witness ==
  /\ Answered("LIST", 200)
  /\ Len(out.response.body.conversations) > 0
  /\ \E id \in DOMAIN store : store[id].userId # out.request.userId

ListAnswered == Answered("LIST", 200)
Listed == out.response.body.conversations
Paging == out.response.body.pagination

OrderedByUpdatedAtDesc(convs) ==
  \A i, j \in DOMAIN convs : i < j => convs[i].updatedAt >= convs[j].updatedAt

\* the owner's conversation an append was last applied to, when it is stored
LastAppendedOf(u) == lastAppended[u]
HasLastAppended(u) == lastAppended[u] \in DOMAIN store

\* C6 as stated, for a client that awaits each response: a listing is ordered
\* by updatedAt descending and the conversation most recently appended to is
\* the first element of page 1
C6_MostRecentFirst ==
  ListAnswered =>
    /\ OrderedByUpdatedAtDesc(Listed)
    /\ (out.request.page = 1 /\ HasLastAppended(out.request.userId))
         => /\ Len(Listed) > 0
            /\ Listed[1].id = LastAppendedOf(out.request.userId)

\* the conversation is the only one of its owner with the latest updatedAt
StrictlyLatest(id) ==
  \A o \in Owned(store, store[id].userId) \ {id} :
    store[o].updatedAt < store[id].updatedAt

\* C6 as amended: a listing is ordered by updatedAt descending, and the
\* conversation most recently appended to is the first element of page 1
\* when its updatedAt is later than that of the owner's other conversations
C6_MostRecentFirstUnlessTied ==
  ListAnswered =>
    /\ OrderedByUpdatedAtDesc(Listed)
    /\ (out.request.page = 1 /\ HasLastAppended(out.request.userId)
         /\ StrictlyLatest(LastAppendedOf(out.request.userId)))
         => /\ Len(Listed) > 0
            /\ Listed[1].id = LastAppendedOf(out.request.userId)

\* page 1 of an owner with two conversations, the second created one appended
\* to a millisecond later and listed first
C6_Witness ==
  /\ ListAnswered /\ out.request.page = 1
  /\ HasLastAppended(out.request.userId)
  /\ StrictlyLatest(LastAppendedOf(out.request.userId))
  /\ Len(Listed) = 2
  /\ Listed[1].id = LastAppendedOf(out.request.userId)
  /\ Listed[1].id > Listed[2].id

\* C7: for page >= 1 and limit >= 1 a listing's pages is ceil(total / limit),
\* the least number of pages of that size that hold total records, and it
\* returns at most limit conversations
C7_PagesIsCeil ==
  (ListAnswered /\ out.request.page >= 1 /\ out.request.limit >= 1)
    => /\ Paging.pages * out.request.limit >= Paging.total
       /\ (Paging.pages - 1) * out.request.limit < Paging.total \/ Paging.pages = 0
       /\ Paging.pages >= 0
       /\ Len(Listed) <= out.request.limit

\* a listing of two records in pages of one, and one of fewer records than a page
C7_Witness ==
  /\ ListAnswered /\ out.request.page >= 1
  /\ \/ out.request.limit = 1 /\ Paging.total = 2 /\ Paging.pages = 2
     \/ out.request.limit = DefaultLimit /\ Paging.total = 1 /\ Paging.pages = 1

\* the owner's conversations by updatedAt descending, conversations with the
\* same updatedAt in the store's order
IsListing(s, u) ==
  /\ Len(s) = Cardinality(Owned(store, u))
  /\ \A i \in DOMAIN s : s[i] \in Owned(store, u)
  /\ \A i, j \in DOMAIN s : i < j =>
       \/ store[s[i]].updatedAt > store[s[j]].updatedAt
       \/ store[s[i]].updatedAt = store[s[j]].updatedAt /\ s[i] < s[j]

ListingOf(u) ==
  CHOOSE s \in UNION {[1..n -> IdPool] : n \in 0..MaxIds} : IsListing(s, u)

\* the ids at positions (page-1)*limit .. (page-1)*limit + limit - 1 of a listing
PageOf(s, page, limit) ==
  LET first == (page - 1) * limit
      n == Max(0, Min(limit, Len(s) - first))
  IN  [i \in 1..n |-> s[first + i]]

IdsOf(convs) == [i \in DOMAIN convs |-> convs[i].id]

RECURSIVE PagesUpTo(_, _, _)
\* pages 1..n of an owner's listing, one after the other
PagesUpTo(u, limit, n) ==
  IF n = 0 THEN <<>>
  ELSE PagesUpTo(u, limit, n - 1)
         \o IdsOf(PageQuery(store, u, Offset(n, limit), limit))

\* C8: for page >= 1 and limit >= 1 findByUserId returns exactly the records
\* at positions (page-1)*limit .. (page-1)*limit + limit - 1 of the owner's
\* conversations by updatedAt descending (fewer at the end, none past it), the
\* total is the owner's count whatever page and limit, and on a store no one
\* writes pages 1..pages hold every conversation of the owner exactly once
C8_PageIsSliceOfListing ==
  /\ \A u \in Users, limit \in 1..MaxLimit :
       /\ \A page \in 1..MaxPage :
            IdsOf(PageQuery(store, u, Offset(page, limit), limit))
              = PageOf(ListingOf(u), page, limit)
       /\ PagesUpTo(u, limit, Ceil(CountQuery(store, u), limit)) = ListingOf(u)
  /\ (ListAnswered /\ out.request.page >= 1 /\ out.request.limit >= 1)
       => /\ IdsOf(Listed) = PageOf(ListingOf(out.request.userId),
                                    out.request.page, out.request.limit)
          /\ \A i \in DOMAIN Listed : Listed[i] = WithId(DocGet(store, Listed[i].id))
          /\ Paging.total = Cardinality(Owned(store, out.request.userId))

\* page 2 in pages of one of an owner with two conversations: the second record
C8_Witness ==
  /\ ListAnswered /\ out.request.page = 2 /\ out.request.limit = 1
  /\ Paging.total = 2
  /\ Len(Listed) = 1
  /\ Listed[1].id = ListingOf(out.request.userId)[2]

\* body.messages is missing, not an array, or an empty array
BadMessages(m) == m.kind \in {"undefined", "string"} \/ m.items = <<>>

\* C9: a PUT whose messages is missing, not an array or empty is answered 400
\* by the step that receives it, which leaves the store as it was; no such
\* request ever reaches the service
C9_BadPutIs400 ==
  [][
      /\ (out'.op = "PUT" /\ BadMessages(out'.request.messages))
          => out'.response.status = 400 /\ store' = store
      /\ \A r \in Reqs : req'[r].op = "PUT" => ~BadMessages(req'[r].messages)
    ]_vars

\* a PUT with empty messages for a stored conversation was answered 400
C9_Witness ==
  /\ Answered("PUT", 400)
  /\ out.request.messages.kind = "array"
  /\ out.request.id \in DOMAIN store

\* sessionId or userId is missing or empty
LacksOwner(body) ==
  body.sessionId \in {Undefined, ""} \/ body.userId \in {Undefined, ""}

\* C10: a POST without sessionId or userId is answered 400 and creates
\* nothing; one with both is answered only with 201 and the created record,
\* by the step that adds exactly one conversation, that record, to the store
C10_PostValidation ==
  [][
      /\ (out'.op = "POST" /\ LacksOwner(out'.request.body))
          => out'.response.status = 400 /\ store' = store
      /\ \A r \in Reqs : req'[r].op = "POST" => ~LacksOwner(req'[r].body)
      /\ (out'.op = "POST" /\ ~LacksOwner(out'.request.body))
          => LET rec == out'.response.body
             IN  /\ out'.response.status = 201
                 /\ rec.sessionId = out'.request.body.sessionId
                 /\ rec.userId = out'.request.body.userId
                 /\ rec.id \notin DOMAIN store
                 /\ DOMAIN store' = DOMAIN store \cup {rec.id}
                 /\ rec = WithId(DocGet(store', rec.id))
                 /\ \A o \in DOMAIN store : store'[o] = store[o]
    ]_vars

\* C11: a conversation created without a messages field is stored and
\* returned with messages present and empty; every stored conversation has a
\* messages sequence, and an append to one with no messages leaves it with
\* exactly the appended batch
C11_MessagesDefaultsToEmpty ==
  [][
      /\ (out'.op = "POST" /\ out'.response.status = 201
           /\ out'.request.body.messages.kind = "undefined")
          => LET rec == out'.response.body
             IN  /\ HasMessages(rec)
                 /\ rec.messages = <<>>
                 /\ HasMessages(store'[rec.id])
                 /\ store'[rec.id].messages = <<>>
      /\ \A id \in DOMAIN store' : HasMessages(store'[id])
      /\ \A r \in Reqs :
          (pc[r] = "append_update" /\ pc'[r] = "append_reread"
           /\ store[req[r].id].messages = <<>>)
            => store'[req[r].id].messages = loc[r].newMessages
    ]_vars

\* a conversation created without a messages field was answered 201 with an
\* empty messages sequence while another conversation is stored
C11_Witness ==
  /\ Answered("POST", 201)
  /\ out.request.body.messages.kind = "undefined"
  /\ out.response.body.messages = <<>>
  /\ Cardinality(DOMAIN store) = 2

IsPrefix(s, t) == Len(s) <= Len(t) /\ SubSeq(t, 1, Len(s)) = s

\* C12: messages are append-only and order-preserving: no step edits, removes
\* or reorders a stored message (the messages a conversation holds before a
\* step are a prefix of those it holds after it, the appended batch following
\* them in its order), and a read returns the messages as stored
C12_AppendOnly ==
  [][
      /\ \A id \in DOMAIN store \cap DOMAIN store' :
           IsPrefix(store[id].messages, store'[id].messages)
      /\ \A r \in Reqs :
          (pc[r] = "append_update" /\ pc'[r] = "append_reread")
            => store'[req[r].id].messages =
                 store[req[r].id].messages \o loc[r].newMessages
      /\ (out'.op \in {"GET", "PUT"} /\ out'.response.status = 200
           /\ HasMessages(out'.response.body))
          => out'.response.body.messages = store[out'.request.id].messages
    ]_vars

\* a read of a conversation created with messages and appended to since
C12_Witness ==
  /\ Answered("GET", 200)
  /\ initLen[out.request.id] > 0 /\ acked[out.request.id] > 0
  /\ Len(out.response.body.messages) = initLen[out.request.id] + acked[out.request.id]
  /\ out.response.body.messages[1].timestamp
       < out.response.body.messages[Len(out.response.body.messages)].timestamp

\* C13 as stated: every stored conversation has updatedAt >= createdAt, the
\* two are equal right after create, and each append moves updatedAt forward
\* or leaves it equal
C13_UpdatedAtOnlyForward ==
  [][
      /\ \A id \in DOMAIN store' : store'[id].updatedAt >= store'[id].createdAt
      /\ \A id \in DOMAIN store' \ DOMAIN store :
           store'[id].updatedAt = store'[id].createdAt
      /\ \A id \in DOMAIN store \cap DOMAIN store' :
           store'[id].updatedAt >= store[id].updatedAt
    ]_vars

\* C13, the part that holds in every interleaving: every stored conversation
\* has updatedAt >= createdAt, and the two are equal when it is added
C13_UpdatedAtNotBeforeCreatedAt ==
  [][
      /\ \A id \in DOMAIN store' : store'[id].updatedAt >= store'[id].createdAt
      /\ \A id \in DOMAIN store' \ DOMAIN store :
           store'[id].updatedAt = store'[id].createdAt
    ]_vars

Distinct(ids) == \A i, j \in DOMAIN ids : i # j => ids[i] # ids[j]

\* C14: ids are unique and never reused: every id a create returns, alone or
\* in a batch, was never given out before (also not to a conversation deleted
\* since), the ids of one batch differ from each other, and every stored
\* conversation has an id that was given out
C14_IdsNeverReused ==
  [][
      /\ idCounter' >= idCounter
      /\ DOMAIN store' \subseteq 1..idCounter'
      /\ \A id \in DOMAIN store' \ DOMAIN store :
           id \notin 1..idCounter /\ id = idCounter'
      /\ (out'.op = "POST" /\ out'.response.status = 201)
          => /\ out'.response.body.id \notin 1..idCounter
             /\ out'.response.body.id \in DOMAIN store' \ DOMAIN store
      /\ (out'.op = "CREATE_MANY")
          => /\ Distinct(IdsOf(out'.response.body))
             /\ \A i \in DOMAIN out'.response.body :
                  out'.response.body[i].id \in 1..idCounter'
             /\ (out'.response.body # <<>>)
                  => out'.response.body[Len(out'.response.body)].id \notin 1..idCounter
    ]_vars

\* a create answered with a new id after the conversation created before it
\* was deleted
C14_Witness ==
  /\ Answered("POST", 201)
  /\ out.response.body.id = 2
  /\ DOMAIN store = {2}

\* C15: a lookup of an id that is not stored gives null from findById and 404
\* 'Conversation not found' from GET /history/:id; a lookup of a stored id is
\* answered 200 with the record as last written, every message appended so
\* far included; the lookup changes nothing
C15_LookupAbsentOrLastWritten ==
  [][\A r \in Reqs :
        (pc[r] = "get_get" /\ pc'[r] = "idle")
          => /\ out'.op = "GET"
             /\ store' = store
             /\ IF req[r].id \in DOMAIN store
                  THEN /\ out'.response.status = 200
                       /\ out'.response.body = ("id" :> req[r].id) @@ store[req[r].id]
                       /\ Len(out'.response.body.messages) =
                            initLen[req[r].id] + acked[req[r].id]
                              + SumOver(Applied(req[r].id),
                                        [q \in Reqs |-> Len(loc[q].newMessages)])
                  ELSE /\ FindById(store, req[r].id) = Null
                       /\ out'.response.status = 404
                       /\ out'.response.body.error.message = "Conversation not found"
    ]_vars

\* a lookup answered 404 for the id of a conversation that was deleted
C15_Witness ==
  /\ Answered("GET", 404)
  /\ out.request.id \in 1..idCounter
  /\ out.request.id \notin DOMAIN store

\* C16 as stated: a DELETE of an id that is not stored is answered 404 and
\* leaves the store unchanged; a DELETE of a stored id is answered 204 and
\* deleteConversation returns the record's last stored value
C16_DeleteReturnsLastStored ==
  [][\A r \in Reqs :
        /\ (pc[r] = "delete_get" /\ pc'[r] # "delete_get"
             /\ req[r].id \notin DOMAIN store)
            => out'.op = "DELETE" /\ out'.response.status = 404 /\ store' = store
        /\ (pc[r] = "delete_delete" /\ pc'[r] = "idle"
             /\ req[r].id \in DOMAIN store)
            => /\ out'.response.status = 204
               /\ out'.response.returned = ("id" :> req[r].id) @@ store[req[r].id]
    ]_vars

\* C16 as amended: a DELETE of an id that is not stored when deleteById reads it
\* is answered 404 and leaves the store unchanged; a DELETE of an id stored at
\* that read is answered 204, the id is not stored afterwards, and
\* deleteConversation returns the record as that read found it, whose messages
\* are a prefix of those stored when the document is removed
C16_DeleteReturnsRecordRead ==
  [][\A r \in Reqs :
        /\ (pc[r] = "delete_get" /\ pc'[r] # "delete_get")
            => IF req[r].id \notin DOMAIN store
                 THEN /\ out'.op = "DELETE"
                      /\ out'.response.status = 404
                      /\ out'.response.body.error.message = "Conversation not found"
                      /\ store' = store
                 ELSE /\ pc'[r] = "delete_delete"
                      /\ loc'[r].data = ("id" :> req[r].id) @@ store[req[r].id]
                      /\ store' = store
        /\ (pc[r] = "delete_delete" /\ pc'[r] = "idle")
            => /\ out'.response.status = 204
               /\ out'.response.returned = loc[r].data
               /\ req[r].id \notin DOMAIN store'
               /\ (req[r].id \in DOMAIN store)
                    => IsPrefix(loc[r].data.messages, store[req[r].id].messages)
    ]_vars

\* a DELETE answered 204 whose returned record lacks a message that was
\* appended between its read and its removal
C16_Witness ==
  /\ Answered("DELETE", 204)
  /\ out.request.id \notin DOMAIN store
  /\ Len(out.response.returned.messages)
       < initLen[out.request.id] + acked[out.request.id]

ChatForwarded == reply.op = "CHAT" /\ reply.calls # <<>>

\* the error texts an answer body of the agent server carries
TextsOf(data) ==
  IF data.kind # "object" \/ "error" \notin DOMAIN data THEN {}
  ELSE ((IF data.error.kind = "object" THEN {data.error.message}
                                       ELSE {data.error.value})
          \cup (IF "details" \in DOMAIN data THEN {data.details} ELSE {}))
         \ {""}

\* C17 as stated: a chat whose upstream call fails without a response is
\* answered 502 'Agent Server unavailable'; one whose upstream call is
\* answered with an HTTP error is answered with the upstream's status and its
\* error message; one whose upstream call succeeds is answered 200 with the
\* upstream body
C17_ChatRelaysUpstreamError ==
  ChatForwarded =>
    IF reply.upstream.settled = "resolved"
      THEN reply.response = Json(200, reply.upstream.response.data)
      ELSE IF ~reply.upstream.hasResponse
      THEN /\ reply.response.status = 502
           /\ reply.response.body.error.message = "Agent Server unavailable"
      ELSE /\ reply.response.status = reply.upstream.response.status
           /\ (TextsOf(reply.upstream.response.data) # {})
                => reply.response.body.error.message
                     \in TextsOf(reply.upstream.response.data)

\* C17, the part that holds: 502 without a response, 200 with the upstream
\* body on success, and on an HTTP error the upstream's status with the text
\* at error.message of its body, or 'Agent Server error' when there is none
C17_ChatRelaysStatus ==
  ChatForwarded =>
    IF reply.upstream.settled = "resolved"
      THEN reply.response = Json(200, reply.upstream.response.data)
      ELSE IF ~reply.upstream.hasResponse
      THEN /\ reply.response.status = 502
           /\ reply.response.body.error.message = "Agent Server unavailable"
      ELSE /\ reply.response.status = reply.upstream.response.status
           /\ reply.response.body.error.message =
                IF ErrorMessageOf(reply.upstream.response.data) \in {Undefined, ""}
                  THEN "Agent Server error"
                  ELSE ErrorMessageOf(reply.upstream.response.data)

\* C18: GET /agent/status is answered 200 with the upstream health body when
\* the probe succeeds and 502 'Agent Server unavailable' when it fails, with
\* or without an HTTP answer of the upstream; the probe is made once
C18_StatusIs200Or502 ==
  (reply.op = "STATUS") =>
    /\ reply.calls = <<[method |-> "GET", url |-> "/api/health"]>>
    /\ IF reply.upstream.settled = "resolved"
         THEN reply.response = Json(200, reply.upstream.response.data)
         ELSE /\ reply.response.status = 502
              /\ reply.response.body.error.message = "Agent Server unavailable"

\* a status request answered 502 although the upstream answered, with a 500
C18_Witness ==
  /\ reply.op = "STATUS"
  /\ reply.upstream.settled = "rejected" /\ reply.upstream.hasResponse
  /\ reply.upstream.response.status = 500
  /\ reply.response.status = 502

\* C19: a chat without a message, or with an empty one, is answered 400 by
\* the step that receives it, which makes no upstream call; a chat with a
\* message makes exactly one upstream call, a POST of {message, sessionId,
\* userId} as received, whatever the upstream answers
C19_ChatValidatedThenForwardedOnce ==
  [][
      /\ (handler = "idle" /\ reply'.op = "CHAT" /\ handler' = "idle")
          => /\ Falsy(reply'.request.body.message)
             /\ reply'.response.status = 400
             /\ reply'.calls = <<>> /\ calls' = <<>>
      /\ (handler' = "chat")
          => /\ ~Falsy(hreq'.body.message)
             /\ calls' = <<[method |-> "POST", url |-> "/api/chat",
                            payload |-> [message |-> hreq'.body.message,
                                         sessionId |-> hreq'.body.sessionId,
                                         userId |-> hreq'.body.userId]]>>
      /\ (handler = "chat" /\ handler' = "idle")
          => /\ reply'.calls = calls /\ Len(reply'.calls) = 1
             /\ reply'.request = hreq
    ]_vars

\* a chat with a message was answered 502 after one upstream call that got no
\* answer
C19_Witness ==
  /\ ChatForwarded
  /\ Len(reply.calls) = 1
  /\ reply.upstream.settled = "rejected" /\ ~reply.upstream.hasResponse
  /\ reply.response.status = 502

\* C20: GET /health is always answered 200 with status 'ok'; agent is
\* 'connected' exactly when the agent probe returned HTTP 200 and
\* 'disconnected' when the probe failed; firestore is 'connected' exactly when
\* the store probe succeeded and 'disconnected' otherwise
C20_HealthAlwaysOk ==
  (reply.op = "HEALTH") =>
    /\ reply.response.status = 200
    /\ reply.response.body.status = "ok"
    /\ (reply.response.body.agent = "connected")
         <=> (reply.upstream.settled = "resolved"
              /\ reply.upstream.response.status = 200)
    /\ (reply.upstream.settled = "rejected")
         => reply.response.body.agent = "disconnected"
    /\ (reply.response.body.firestore = "connected")
         <=> (reply.request.probed = "resolved")
    /\ (reply.request.probed # "resolved")
         => reply.response.body.firestore = "disconnected"

\* a health request answered 200 with both the store and the agent down
C20_Witness ==
  /\ reply.op = "HEALTH"
  /\ reply.response.status = 200
  /\ reply.response.body.firestore = "disconnected"
  /\ reply.response.body.agent = "disconnected"
  /\ reply.request.probed = "threw"

HttpOps == {"POST", "PUT", "DELETE", "GET", "LIST"}
StatusCodes == {400, 404, 422, 502}

\* C21: error translation is layered: an error with a status code is answered
\* with exactly that status and one without with 500; a 400 is given by the
\* controller before any store call, a 404 only where the repository found
\* nothing (the service's NotFound), and every error of a store call, during
\* create, list, append, lookup or delete, passes through as a 500
C21_ErrorsAreLayered ==
  [][
      /\ \A c \in StatusCodes : ErrorHandler(ApiError(c, "message")).status = c
      /\ ErrorHandler(StoreUnavailable).status = 500
      /\ (out'.op \in HttpOps) =>
          /\ (out'.response.status = 400)
               => /\ out'.locals = NoLoc
                  /\ \A r \in Reqs : pc'[r] = pc[r]
                  /\ store' = store
          /\ (out'.response.status = 404)
               => /\ out'.op \in {"GET", "PUT", "DELETE"}
                  /\ out'.request.id \notin DOMAIN store
                  /\ out'.response.body.error.message = "Conversation not found"
          /\ (out'.response.status = 500)
               => out'.response.body.error.message
                    \in {StoreUnavailable.message, "Document not found",
                         "(data.messages || []).map is not a function"}
          /\ (out'.response.status \notin {200, 201, 204})
               => out'.response.status \in {400, 404, 500}
      /\ \A r \in Reqs :
          (StoreCallPending(r) /\ pc'[r] = "idle" /\ out'.op \in HttpOps
           /\ out'.response.status \notin {200, 201, 204, 404})
            => /\ out'.response.status = 500
               /\ store' = store
    ]_vars

\* an append to a stored conversation was answered 500 because a store call
\* failed
C21_Witness ==
  /\ Answered("PUT", 500)
  /\ out.response.body.error.message = StoreUnavailable.message
  /\ out.request.id \in DOMAIN store

\* a query parameter that is missing or does not parse as an integer
Unparseable(q) == ParseInt(q).nan
\* the integer a query parameter is parsed to
Parsed(q) == ParseInt(q).val

\* C22: GET /history without userId is answered 400 and starts no store
\* query; with userId, a page or limit that is absent or unparseable is
\* replaced by 1 or 20, one that parses to a non-zero integer is used as
\* parsed, the page query is made with the values so obtained and
\* pagination.page and pagination.limit echo them
C22_ListValidationAndDefaults ==
  [][
      /\ (out'.op = "LIST" /\ out'.request.userId = Undefined) =>
           /\ out'.response.status = 400
           /\ out'.locals = NoLoc
           /\ store' = store
           /\ \A r \in Reqs : pc'[r] = pc[r]
      /\ (out'.op = "LIST" /\ out'.request.userId # Undefined
          /\ out'.response.status = 200) =>
           LET q == out'.request.query
               paging == out'.response.body.pagination
           IN  /\ Unparseable(q.page) => paging.page = 1
               /\ Unparseable(q.limit) => paging.limit = 20
               /\ (~Unparseable(q.page) /\ Parsed(q.page) # 0)
                    => paging.page = Parsed(q.page)
               /\ (~Unparseable(q.limit) /\ Parsed(q.limit) # 0)
                    => paging.limit = Parsed(q.limit)
               /\ paging.page = out'.request.page
               /\ paging.limit = out'.request.limit
      /\ \A r \in Reqs :
          (pc[r] = "list_wait" /\ ~loc[r].havePage
           /\ (pc'[r] = "idle" \/ loc'[r].havePage)) =>
            LET got == IF pc'[r] = "idle" THEN out'.response.body.conversations
                       ELSE loc'[r].conversations
            IN  got = PageQuery(store, req[r].userId,
                                (req[r].page - 1) * req[r].limit, req[r].limit)
    ]_vars

\* a listing asked with an unparseable page and no limit was answered with
\* page 1 and limit 20
C22_Witness ==
  /\ ListAnswered
  /\ out.request.query.page.present
  /\ Unparseable(out.request.query.page)
  /\ ~out.request.query.limit.present
  /\ Paging.page = 1
  /\ Paging.limit = 20

\* the fields of a stored conversation an append may change
AppendedFields == {"messages", "updatedAt"}

\* the conversation keeps every field but messages and updatedAt
SameButAppended(old, new) ==
  \A k \in (DOMAIN old \cup DOMAIN new) \ AppendedFields :
    k \in DOMAIN old /\ k \in DOMAIN new /\ old[k] = new[k]

\* C23: an append changes only messages and updatedAt of its conversation:
\* the conversation stays under its id with the sessionId, userId, metadata
\* and createdAt it was stored with at creation, whatever steps follow, and
\* the update of an append leaves every other conversation as it is
C23_AppendTouchesOnlyMessagesAndUpdatedAt ==
  [][
      /\ \A id \in DOMAIN store \cap DOMAIN store' :
           SameButAppended(store[id], store'[id])
      /\ \A r \in Reqs :
          (pc[r] = "create_add" /\ pc'[r] = "idle" /\ out'.response.status = 201) =>
            LET id == out'.response.body.id
            IN  /\ id \notin DOMAIN store
                /\ \A k \in {"sessionId", "userId", "metadata", "createdAt"} :
                     store'[id][k] = loc[r].doc[k]
      /\ \A r \in Reqs :
          (pc[r] = "append_update" /\ pc'[r] = "append_reread") =>
            /\ DOMAIN store' = DOMAIN store
            /\ \A id \in DOMAIN store \ {req[r].id} : store'[id] = store[id]
            /\ store'[req[r].id].messages # store[req[r].id].messages
    ]_vars

\* two conversations are stored, one as created and one appended to twice
C23_Witness ==
  \E id, other \in DOMAIN store :
    /\ id # other
    /\ Len(store[id].messages) > initLen[id] + MaxBatch
    /\ store[id].updatedAt > store[id].createdAt
    /\ Len(store[other].messages) = initLen[other]

\* C24 as stated: every findByUserId call made for a GET /history request has
\* page >= 1 and limit >= 1, so the offset handed to the store is not negative
C24_PageAndLimitPositive ==
  \A r \in Reqs :
    (pc[r] = "list_wait") =>
      /\ req[r].page >= 1
      /\ req[r].limit >= 1
      /\ Offset(req[r].page, req[r].limit) >= 0

\* the results of a batch create that has returned
BatchReturned == out.op = "CREATE_MANY" /\ out.response.status = "resolved"

\* C25: create applied to a sequence of k records returns k stored records,
\* the i-th with the sessionId and userId of the i-th input and an id of its
\* own, under which that record is stored; the call creates exactly k
\* conversations, in input order; applied to one record it creates one
\* conversation and returns that one record
C25_BatchCreateInOrder ==
  [][
      /\ (out'.op = "CREATE_MANY" /\ out'.response.status = "resolved") =>
           LET items == out'.request.items
               results == out'.response.body
           IN  /\ Len(results) = Len(items)
               /\ \A i \in DOMAIN items :
                    /\ results[i].sessionId = items[i].sessionId
                    /\ results[i].userId = items[i].userId
               /\ \A i, j \in DOMAIN results :
                    /\ (i # j) => (results[i].id # results[j].id)
                    /\ (i < j) => (results[i].id < results[j].id)
      /\ \A r \in Reqs :
          (pc[r] = "batch_add" /\ pc'[r] # pc[r]) =>
            LET done == Len(loc[r].results)
                made == DOMAIN store' \ DOMAIN store
            IN  /\ Cardinality(made) = 1
                /\ \A id \in made :
                     /\ store'[id].sessionId = req[r].items[done + 1].sessionId
                     /\ store'[id].userId = req[r].items[done + 1].userId
                     /\ \A i \in 1..done : loc[r].results[i].id < id
                /\ (pc'[r] = "idle") <=> (done + 1 = Len(req[r].items))
      /\ \A r \in Reqs :
          (pc[r] = "batch_build" /\ pc'[r] # pc[r]) =>
            /\ store' = store
            /\ Len(loc[r].results) < Len(req[r].items)
      /\ (out'.op = "POST" /\ out'.response.status = 201) =>
           /\ Cardinality(DOMAIN store' \ DOMAIN store) = 1
           /\ out'.response.body.id \in DOMAIN store' \ DOMAIN store
           /\ out'.response.body.sessionId = out'.request.body.sessionId
           /\ out'.response.body.userId = out'.request.body.userId
    ]_vars

\* a batch of two records of different owners has returned its two results
C25_Witness ==
  /\ BatchReturned
  /\ Len(out.request.items) = 2
  /\ out.request.items[1].userId # out.request.items[2].userId
  /\ Len(out.response.body) = 2

\* the fields of a full conversation record
RecordFields == {"id", "sessionId", "userId", "messages", "metadata",
                 "createdAt", "updatedAt"}

\* C26 as stated: every append that completes without error returns a full
\* conversation record whose messages contain the messages of that call, also
\* when a delete of the same id interleaves with its three store steps
C26_AppendReturnsFullRecord ==
  Answered("PUT", 200) =>
    /\ RecordFields \subseteq DOMAIN out.response.body
    /\ Contains(out.response.body.messages, out.locals.newMessages)

\* the ids of the conversations deleted so far: every id up to idCounter has
\* been stored, so one that is not stored has been deleted
Deleted == (1..idCounter) \ DOMAIN store

\* C27: a deleted conversation stays deleted: the id of a completed delete is
\* not in the store, no later step stores a conversation under a deleted id,
\* and an append that passed its existence check before the delete and makes
\* its update after it ends in an error and leaves the store as it is
C27_DeletedStaysDeleted ==
  [][
      /\ \A id \in Deleted : id \notin DOMAIN store'
      /\ (out'.op = "DELETE" /\ out'.response.status = 204)
           => out'.request.id \notin DOMAIN store'
      /\ \A r \in Reqs :
          (pc[r] = "append_update" /\ req[r].id \in Deleted /\ pc'[r] # pc[r]) =>
            /\ store' = store
            /\ pc'[r] = "idle"
            /\ out'.op = "PUT"
            /\ out'.response.status = 500
    ]_vars

\* an append whose conversation was deleted after its existence check has
\* ended in an error, the conversation staying deleted
C27_Witness ==
  /\ Answered("PUT", 500)
  /\ out.before.exists
  /\ out.request.id \in Deleted
  /\ out.response.body.error.message = "Document not found"

\* C28 as stated: in every listing the page and the count are consistent,
\* (page-1)*limit + conversations.length <= pagination.total, also when
\* creates or deletes of the owner's conversations come between the page
\* query and the count query
C28_PageWithinTotal ==
  ListAnswered =>
    (Paging.page - 1) * Paging.limit + Len(Listed) <= Paging.total

\* the number of records on a page of a listing of total records
PageLength(page, limit, total) == Max(0, Min(limit, total - (page - 1) * limit))

\* C28 for what the two independent queries do give, for page >= 1 and
\* limit >= 1: a page holds at most limit conversations; when both queries
\* find the same conversations of the owner in the store, the page holds
\* max(0, min(limit, total - (page-1)*limit)) of them, so that
\* (page-1)*limit + conversations.length <= total for every page that is
\* not empty and for every page that starts within the total
C28_PageMatchesTotalWhenUndisturbed ==
  [][
      \A r \in Reqs :
        (pc[r] = "list_wait" /\ pc'[r] = "idle" /\ out'.response.status = 200
         /\ req[r].page >= 1 /\ req[r].limit >= 1) =>
          LET listed == out'.response.body.conversations
              paging == out'.response.body.pagination
              offset == (paging.page - 1) * paging.limit
          IN  /\ Len(listed) <= paging.limit
              /\ (loc[r].seen = Seen(r)) =>
                   /\ Len(listed) = PageLength(paging.page, paging.limit, paging.total)
                   /\ (listed # <<>> \/ offset <= paging.total)
                        => offset + Len(listed) <= paging.total
    ]_vars

\* a second page of one conversation was answered by two queries that found
\* the same two conversations of the owner
C28_Witness ==
  /\ ListAnswered
  /\ Paging.page = 2 /\ Paging.limit = 1 /\ Paging.total = 2
  /\ Len(Listed) = 1
  /\ out.locals.seen = Owned(store, out.request.userId)

\* C29: in PUT /history/:id the body is validated before the conversation is
\* looked up: a request whose messages is missing, not an array or empty is
\* answered 400 by the step that receives it, whether or not the id is
\* stored, with no store call started and the store unchanged; a 400 is only
\* given for such a body, and a 404 only for a non-empty array and an id that
\* is not stored
C29_ValidationBeforeLookup ==
  [][
      /\ (out'.op = "PUT" /\ BadMessages(out'.request.messages)) =>
           /\ out'.response.status = 400
           /\ out'.locals = NoLoc
           /\ out'.before = NoBefore
           /\ \A r \in Reqs : pc'[r] = pc[r] /\ loc'[r] = loc[r]
           /\ store' = store
      /\ (out'.op = "PUT" /\ out'.response.status = 400)
           => BadMessages(out'.request.messages)
      /\ (out'.op = "PUT" /\ out'.response.status = 404) =>
           /\ out'.request.messages.kind = "array"
           /\ out'.request.messages.items # <<>>
           /\ out'.request.id \notin DOMAIN store
           /\ \E r \in Reqs : pc[r] = "append_get" /\ pc'[r] = "idle"
    ]_vars

\* a PUT without messages for an id that is not stored was answered 400
C29_Witness ==
  /\ Answered("PUT", 400)
  /\ out.request.messages.kind = "undefined"
  /\ out.request.id \notin DOMAIN store

\* initializeFirebase has completed successfully
Initialized == firstDb # NoHandle

\* C30: getDb throws in every state in which initializeFirebase has not yet
\* completed successfully and returns the handle of the first successful
\* initializeFirebase in every state after; the server starts listening only
\* in the step in which start()'s initializeFirebase has returned, and when
\* that call throws the process exits with code 1 and never listens
C30_HandleProtocol ==
  [][
      /\ (nCalls' = nCalls + 1 /\ result'.call = "getDb") =>
           IF Initialized
             THEN result'.status = "returned" /\ result'.value = firstDb
             ELSE result'.status = "threw"
      /\ (result'.call = "initializeFirebase" /\ result'.status = "returned"
          /\ nCalls' = nCalls + 1)
           => result'.value = firstDb' /\ db' = firstDb'
      /\ (proc' = "listening")
           => /\ Initialized'
              /\ (proc # "listening")
                   => /\ result'.call = "initializeFirebase"
                      /\ result'.by = "start"
                      /\ result'.status = "returned"
      /\ (proc = "loaded" /\ proc' # "loaded" /\ result'.status = "threw")
           => proc' = "exited" /\ exitCode' = ExitFailure
      /\ (proc = "exited") => (proc' = "exited")
      /\ (proc' = "exited" /\ proc # "exited") => (proc = "loaded")
    ]_vars

\* getDb has returned the handle in a server that listens
C30_Witness ==
  /\ proc = "listening"
  /\ result.call = "getDb"
  /\ result.status = "returned"
  /\ result.value = firstDb

====
